---- MODULE Spec2Model ----
(***************************************************************************)
(* Model of process_spectra.py: the stub loader, detect_clouds,            *)
(* estimate_particle_radius and the process_spectra loop.                  *)
(*                                                                         *)
(* Numbers.  The code computes in IEEE doubles.  The model holds           *)
(* wavelengths as exact integers in units of 1/WUnit micrometres and       *)
(* absorptions as exact integers in units of 1/AUnit; a radius is an exact *)
(* rational [n, d].  The value sets below are chosen so that the order of  *)
(* the double distances |w - target| equals the order of the exact ones    *)
(* (ties included: |1.0 - 1.5| = |2.0 - 1.5| = 0.5 exactly in doubles, and *)
(* on the linspace grid index 49 beats index 50 for target 2.0 in doubles  *)
(* as it does by the lowest-index rule on the exact tie).                  *)
(*                                                                         *)
(* Indices are 1-based here; Python's idx is the model's idx - 1.          *)
(***************************************************************************)
EXTENDS Integers, Sequences, FiniteSets, TLC

VARIABLES
    mode,        \* "imported": functions called directly; "main": process_spectra runs
    spectrum,    \* imported: the spectrum_data dict handed to the functions
    threshold,   \* imported: the threshold argument of detect_clouds
    detCalls,    \* imported: outcomes of the successive detect_clouds calls
    estCalls,    \* imported: outcomes of the successive estimate_particle_radius calls
    file_paths,  \* main: the argument of process_spectra
    i,           \* main: 1-based position of the loop of process_spectra
    pc,          \* main: position inside the loop body
    data,        \* main: the local variable data
    stdout,      \* main: the lines printed so far
    calls,       \* main: log of the calls made so far (function, file, result)
    escaped      \* main: the exception that left process_spectra, or "none"

vars == <<mode, spectrum, threshold, detCalls, estCalls,
          file_paths, i, pc, data, stdout, calls, escaped>>

----------------------------------------------------------------------------
(* Bounds *)
MaxLen == 2
MaxCalls == 2
MaxFiles == 2
Period == 2

----------------------------------------------------------------------------
(* Number representation *)
WUnit == 99 * 100
AUnit == 100

Abs(x) == IF x < 0 THEN 0 - x ELSE x

RECURSIVE GCD(_, _)
GCD(a, b) == IF b = 0 THEN a ELSE GCD(b, a % b)

\* The rational n/d in lowest terms, d > 0.  d = 0 stands for the IEEE
\* results of a division by zero (n > 0: inf, n < 0: -inf, n = 0: nan).
Rat(n, d) ==
    IF d = 0 THEN [n |-> IF n > 0 THEN 1 ELSE IF n < 0 THEN 0 - 1 ELSE 0, d |-> 0]
    ELSE LET g == GCD(Abs(n), Abs(d))
             s == IF d < 0 THEN 0 - 1 ELSE 1
         IN  [n |-> (s * n) \div g, d |-> (s * d) \div g]

RMul(x, y) == IF x.d = 0 \/ y.d = 0 THEN Rat(x.n * y.n, 0)
              ELSE Rat(x.n * y.n, x.d * y.d)
RAdd(x, y) == IF x.d = 0 THEN x ELSE IF y.d = 0 THEN y
              ELSE Rat(x.n * y.d + y.n * x.d, x.d * y.d)
RLess(x, y) == x.n * y.d < y.n * x.d
RZero == Rat(0, 1)

----------------------------------------------------------------------------
(* Program constants *)
DefaultThreshold == 5                      \* threshold=0.05
Target_1_65 == (165 * WUnit) \div 100      \* 1.65
Target_1_5 == (15 * WUnit) \div 10         \* 1.5
Target_2_0 == 2 * WUnit                    \* 2.0
k == Rat(25, 2)                            \* k = 12.5
c == Rat(1, 5)                             \* c = 0.2
LinStart == 1 * WUnit                      \* np.linspace(1.0, ...
LinStop == 3 * WUnit                       \* np.linspace(..., 3.0, ...
NumSamples == 100                          \* np.linspace(..., 100), rand(100)

----------------------------------------------------------------------------
(* Outcome of a call: a returned value or a raised exception *)
Return(v) == [kind |-> "return", exc |-> "none", value |-> v]
Raise(e) == [kind |-> "raise", exc |-> e, value |-> FALSE]

----------------------------------------------------------------------------
(* numpy *)

\* np.abs(wavelengths - target)
AbsDiff(wavelengths, target) ==
    [j \in 1..Len(wavelengths) |-> Abs(wavelengths[j] - target)]

\* np.argmin of a non-empty array: "in case of multiple occurrences of the
\* minimum values, the indices corresponding to the first occurrence are
\* returned".
argmin(s) ==
    LET vals == {s[j] : j \in 1..Len(s)}
        m == CHOOSE v \in vals : \A u \in vals : v <= u
    IN  CHOOSE j \in 1..Len(s) : s[j] = m /\ \A l \in 1..(j - 1) : s[l] # m

\* np.linspace(start, stop, num) = start + arange(num) * ((stop - start) / (num - 1))
\* (linspace_const: the step left out.)
linspace_const(start, stop, num) == [j \in 1..num |-> start]
linspace(start, stop, num) ==
    LET div == num - 1
        step == IF div > 0 THEN (stop - start) \div div ELSE stop - start
    IN  [j \in 1..num |-> start + (j - 1) * step]

----------------------------------------------------------------------------
(* The environment: what each path resolves to.  The code never looks. *)
Paths == {"good.csv", "missing.csv", "bad.csv"}
PathStatus == [p \in Paths |->
    IF p = "good.csv" THEN "readable"
    ELSE IF p = "missing.csv" THEN "missing" ELSE "malformed"]

----------------------------------------------------------------------------
(* load_spectrum_data *)

\* Absorption values the stub can draw: np.random.rand(100) * 0.1 lies in
\* [0, 0.1), here 0, 0.05 and 0.09.
LoadAbsVals == {0, 5, 9}

\* The draws of np.random.rand(100) * 0.1 the model explores: the vectors
\* that repeat a pattern of Period values.
RandDraws == [1..Period -> LoadAbsVals]
rand_times(draw, n) == [j \in 1..n |-> draw[((j - 1) % Period) + 1]]

\* The path is ignored: every call returns the grid and a fresh draw.
load_spectrum_data(file_path, draw) ==
    LET wavelengths == linspace(LinStart, LinStop, NumSamples)
        absorption == rand_times(draw, NumSamples)
    IN  Return([wavelengths |-> wavelengths, absorption |-> absorption])

----------------------------------------------------------------------------
(* detect_clouds *)

\* detect_clouds with >= in place of > on line 31.
detect_clouds_ge(spectrum_data, thr) ==
    LET wavelengths == spectrum_data.wavelengths
        absorption == spectrum_data.absorption
    IN  IF Len(wavelengths) = 0 THEN Raise("ValueError")
        ELSE LET idx == argmin(AbsDiff(wavelengths, Target_1_65))
             IN  IF idx > Len(absorption) THEN Raise("IndexError")
                 ELSE Return(absorption[idx] >= thr)

\* np.argmin raises ValueError on an empty array; absorption[idx] raises
\* IndexError when absorption is shorter than idx.
detect_clouds(spectrum_data, thr) ==
    LET wavelengths == spectrum_data.wavelengths
        absorption == spectrum_data.absorption
    IN  IF Len(wavelengths) = 0 THEN Raise("ValueError")
        ELSE LET idx == argmin(AbsDiff(wavelengths, Target_1_65))
             IN  IF idx > Len(absorption) THEN Raise("IndexError")
                 ELSE Return(absorption[idx] > thr)

\* Line 30 written as wavelengths -= 1.65: the subtraction done in place.
detect_clouds_inplace(spectrum_data) ==
    [spectrum_data EXCEPT !.wavelengths =
        [j \in 1..Len(@) |-> @[j] - Target_1_65]]

\* spectrum_data when detect_clouds is left: wavelengths - 1.65 is a new
\* array, nothing is stored into the dict or its arrays.
detect_clouds_data(spectrum_data) == spectrum_data

----------------------------------------------------------------------------
(* estimate_particle_radius *)

EstReturn(v, divided) ==
    [kind |-> "return", exc |-> "none", value |-> v, divided |-> divided]
EstRaise(e) ==
    [kind |-> "raise", exc |-> e, value |-> RZero, divided |-> FALSE]

\* estimate_particle_radius without the test of line 55.
estimate_noguard(spectrum_data) ==
    LET wavelengths == spectrum_data.wavelengths
        absorption == spectrum_data.absorption
    IN  IF Len(wavelengths) = 0 THEN EstRaise("ValueError")
        ELSE LET idx_1_5 == argmin(AbsDiff(wavelengths, Target_1_5))
                 idx_2_0 == argmin(AbsDiff(wavelengths, Target_2_0))
             IN  IF idx_1_5 > Len(absorption) \/ idx_2_0 > Len(absorption)
                 THEN EstRaise("IndexError")
                 ELSE LET abs_1_5 == absorption[idx_1_5]
                          abs_2_0 == absorption[idx_2_0]
                      IN  EstReturn(RAdd(RMul(k, Rat(abs_2_0, abs_1_5)), c), TRUE)

\* estimate_particle_radius with the two target wavelengths exchanged.
estimate_swapped(spectrum_data) ==
    LET wavelengths == spectrum_data.wavelengths
        absorption == spectrum_data.absorption
    IN  IF Len(wavelengths) = 0 THEN EstRaise("ValueError")
        ELSE LET idx_1_5 == argmin(AbsDiff(wavelengths, Target_2_0))
                 idx_2_0 == argmin(AbsDiff(wavelengths, Target_1_5))
             IN  IF idx_1_5 > Len(absorption) \/ idx_2_0 > Len(absorption)
                 THEN EstRaise("IndexError")
                 ELSE LET abs_1_5 == absorption[idx_1_5]
                          abs_2_0 == absorption[idx_2_0]
                      IN  IF abs_1_5 = 0 THEN EstReturn(RZero, FALSE)
                          ELSE EstReturn(RAdd(RMul(k, Rat(abs_2_0, abs_1_5)), c), TRUE)

\* estimate_particle_radius without the offset c on line 65.
estimate_nooffset(spectrum_data) ==
    LET wavelengths == spectrum_data.wavelengths
        absorption == spectrum_data.absorption
    IN  IF Len(wavelengths) = 0 THEN EstRaise("ValueError")
        ELSE LET idx_1_5 == argmin(AbsDiff(wavelengths, Target_1_5))
                 idx_2_0 == argmin(AbsDiff(wavelengths, Target_2_0))
             IN  IF idx_1_5 > Len(absorption) \/ idx_2_0 > Len(absorption)
                 THEN EstRaise("IndexError")
                 ELSE LET abs_1_5 == absorption[idx_1_5]
                          abs_2_0 == absorption[idx_2_0]
                      IN  IF abs_1_5 = 0 THEN EstReturn(RZero, FALSE)
                          ELSE EstReturn(RMul(k, Rat(abs_2_0, abs_1_5)), TRUE)

\* divided records whether line 65 (the division) was executed.  The
\* division of two numpy float64 scalars does not raise on a zero divisor.
estimate_particle_radius(spectrum_data) ==
    LET wavelengths == spectrum_data.wavelengths
        absorption == spectrum_data.absorption
    IN  IF Len(wavelengths) = 0 THEN EstRaise("ValueError")
        ELSE LET idx_1_5 == argmin(AbsDiff(wavelengths, Target_1_5))
                 idx_2_0 == argmin(AbsDiff(wavelengths, Target_2_0))
             IN  IF idx_1_5 > Len(absorption) \/ idx_2_0 > Len(absorption)
                 THEN EstRaise("IndexError")
                 ELSE LET abs_1_5 == absorption[idx_1_5]
                          abs_2_0 == absorption[idx_2_0]
                      IN  IF abs_1_5 = 0 THEN EstReturn(RZero, FALSE)
                          ELSE LET radius == RAdd(RMul(k, Rat(abs_2_0, abs_1_5)), c)
                               IN  EstReturn(radius, TRUE)

\* spectrum_data when estimate_particle_radius is left: unchanged.
estimate_particle_radius_data(spectrum_data) == spectrum_data

\* f"{radius:.2f}": the number of hundredths nearest to radius (half to
\* even), or not finite.
Fmt2(r) ==
    IF r.d = 0 THEN [finite |-> FALSE, hundredths |-> r.n]
    ELSE LET x == r.n * 100
             q == x \div r.d
             rem == x % r.d
         IN  [finite |-> TRUE,
              hundredths |-> IF 2 * rem < r.d THEN q
                             ELSE IF 2 * rem > r.d THEN q + 1
                             ELSE IF q % 2 = 0 THEN q ELSE q + 1]

----------------------------------------------------------------------------
(* Inputs *)
WaveVals == {1 * WUnit, Target_1_5, Target_1_65, Target_2_0}
AbsVals == {0 - 10, 0, 10, 20}
Thresholds == {DefaultThreshold, 10, 25}

Spectra ==
    UNION {{[wavelengths |-> w, absorption |-> a] :
                w \in [1..m -> WaveVals], a \in [1..m -> AbsVals]} : m \in 0..MaxLen}

PathLists == UNION {[1..m -> Paths] : m \in 0..MaxFiles}

NoData == [wavelengths |-> <<>>, absorption |-> <<>>]

----------------------------------------------------------------------------
(* The module imported: detect_clouds and estimate_particle_radius are     *)
(* called directly, any number of times, on one spectrum_data.             *)

InitImported ==
    /\ mode = "imported"
    /\ spectrum \in Spectra
    /\ threshold \in Thresholds
    /\ detCalls = <<>>
    /\ estCalls = <<>>
    /\ file_paths = <<>>
    /\ i = 1
    /\ pc = "idle"
    /\ data = NoData
    /\ stdout = <<>>
    /\ calls = <<>>
    /\ escaped = "none"

CallDetect ==
    /\ mode = "imported"
    /\ Len(detCalls) < MaxCalls
    /\ detCalls' = Append(detCalls, detect_clouds(spectrum, threshold))
    /\ spectrum' = detect_clouds_data(spectrum)
    /\ UNCHANGED <<mode, threshold, estCalls,
                   file_paths, i, pc, data, stdout, calls, escaped>>

CallEstimate ==
    /\ mode = "imported"
    /\ Len(estCalls) < MaxCalls
    /\ estCalls' = Append(estCalls, estimate_particle_radius(spectrum))
    /\ spectrum' = estimate_particle_radius_data(spectrum)
    /\ UNCHANGED <<mode, threshold, detCalls,
                   file_paths, i, pc, data, stdout, calls, escaped>>

----------------------------------------------------------------------------
(* The script run: process_spectra(file_paths) *)

InitMain ==
    /\ mode = "main"
    /\ spectrum = NoData
    /\ threshold = DefaultThreshold
    /\ detCalls = <<>>
    /\ estCalls = <<>>
    /\ file_paths \in PathLists
    /\ i = 1
    /\ pc = "for"
    /\ data = NoData
    /\ stdout = <<>>
    /\ calls = <<>>
    /\ escaped = "none"

\* The estimate made whatever detect_clouds returned.
AfterDetectAlways(detected) == "estimate"

\* Where the if of line 77 goes.
AfterDetect(detected) == IF detected THEN "estimate" ELSE "for"

\* Lines 74-76: the next path, the announcement, the load.
LoopLoad ==
    /\ mode = "main" /\ pc = "for" /\ i <= Len(file_paths)
    /\ \E draw \in RandDraws :
         LET r == load_spectrum_data(file_paths[i], draw)
         IN  /\ calls' = Append(calls, [fn |-> "load", file |-> i, kind |-> r.kind,
                                          exc |-> r.exc])
             /\ IF r.kind = "raise"
                THEN /\ escaped' = r.exc
                     /\ pc' = "raised"
                     /\ data' = data
                ELSE /\ escaped' = escaped
                     /\ pc' = "detect"
                     /\ data' = r.value
    /\ stdout' = Append(stdout, [tag |-> "Processing", path |-> file_paths[i]])
    /\ UNCHANGED <<mode, spectrum, threshold, detCalls, estCalls, file_paths, i>>

\* Lines 77, 78, 81, 82: detect_clouds(data) with the default threshold.
Detect ==
    /\ mode = "main" /\ pc = "detect"
    /\ LET r == detect_clouds(data, DefaultThreshold)
       IN  /\ calls' = Append(calls, [fn |-> "detect", file |-> i, kind |-> r.kind,
                                      exc |-> r.exc, value |-> r.value])
           /\ data' = detect_clouds_data(data)
           /\ IF r.kind = "raise"
              THEN /\ escaped' = r.exc
                   /\ pc' = "raised"
                   /\ UNCHANGED <<stdout, i>>
              ELSE /\ escaped' = escaped
                   /\ pc' = AfterDetect(r.value)
                   /\ IF r.value
                      THEN /\ stdout' = Append(stdout, [tag |-> "Cloud", file |-> i])
                           /\ i' = i
                      ELSE /\ stdout' = Append(stdout, [tag |-> "NoCloud", file |-> i])
                           /\ i' = i + 1
    /\ UNCHANGED <<mode, spectrum, threshold, detCalls, estCalls, file_paths>>

\* Lines 79, 80.
Estimate ==
    /\ mode = "main" /\ pc = "estimate"
    /\ LET r == estimate_particle_radius(data)
       IN  /\ calls' = Append(calls, [fn |-> "estimate", file |-> i, kind |-> r.kind,
                                      exc |-> r.exc, value |-> r.value,
                                      divided |-> r.divided])
           /\ data' = estimate_particle_radius_data(data)
           /\ IF r.kind = "raise"
              THEN /\ escaped' = r.exc
                   /\ pc' = "raised"
                   /\ UNCHANGED <<stdout, i>>
              ELSE /\ escaped' = escaped
                   /\ pc' = "for"
                   /\ stdout' = Append(stdout, [tag |-> "Radius", file |-> i,
                                                radius |-> Fmt2(r.value)])
                   /\ i' = i + 1
    /\ UNCHANGED <<mode, spectrum, threshold, detCalls, estCalls, file_paths>>

\* Line 74: the list is exhausted, process_spectra returns.
LoopExit ==
    /\ mode = "main" /\ pc = "for" /\ i > Len(file_paths)
    /\ pc' = "done"
    /\ UNCHANGED <<mode, spectrum, threshold, detCalls, estCalls,
                   file_paths, i, data, stdout, calls, escaped>>

----------------------------------------------------------------------------
Init == InitImported \/ InitMain

Next == CallDetect \/ CallEstimate \/ LoopLoad \/ Detect \/ Estimate \/ LoopExit

Spec == Init /\ [][Next]_vars

----------------------------------------------------------------------------
(* Definitions used by the properties *)

\* The lowest index among the samples of w at minimum distance from t.
NearestIdx(w, t) ==
    CHOOSE n \in 1..Len(w) :
        /\ \A m \in 1..Len(w) : Abs(w[n] - t) <= Abs(w[m] - t)
        /\ \A m \in 1..(n - 1) : Abs(w[m] - t) > Abs(w[n] - t)

NonEmpty == mode = "imported" /\ Len(spectrum.wavelengths) >= 1
A_1_65 == spectrum.absorption[NearestIdx(spectrum.wavelengths, Target_1_65)]
A_1_5 == spectrum.absorption[NearestIdx(spectrum.wavelengths, Target_1_5)]
A_2_0 == spectrum.absorption[NearestIdx(spectrum.wavelengths, Target_2_0)]

\* C1: on a spectrum with at least one sample detect_clouds returns, and
\* returns true iff the absorption of the lowest-index sample nearest to
\* 1.65 strictly exceeds the threshold.
C1_DetectNearestStrict ==
    NonEmpty =>
        \A n \in 1..Len(detCalls) :
            /\ detCalls[n].kind = "return"
            /\ detCalls[n].value = (A_1_65 > threshold)

\* Two samples at the same distance from 1.65, the first with absorption
\* equal to the threshold, the second above it: the call answered false.
C1_Witness ==
    /\ mode = "imported" /\ Len(detCalls) >= 1
    /\ Len(spectrum.wavelengths) = 2
    /\ spectrum.wavelengths[1] = spectrum.wavelengths[2]
    /\ spectrum.absorption[1] = threshold
    /\ spectrum.absorption[2] > threshold
    /\ detCalls[1] = Return(FALSE)

\* C2: when the absorption nearest to 1.5 is zero, estimate_particle_radius
\* returns the sentinel 0.0 and does not execute the division.
C2_ZeroDenominatorSentinel ==
    (NonEmpty /\ A_1_5 = 0) =>
        \A n \in 1..Len(estCalls) :
            /\ estCalls[n].kind = "return"
            /\ estCalls[n].value = RZero
            /\ ~estCalls[n].divided

C2_Witness ==
    /\ NonEmpty /\ Len(estCalls) >= 1
    /\ A_1_5 = 0 /\ A_2_0 # 0

\* C3: when the absorption a1 nearest to 1.5 is not zero, the result is
\* 12.5 * (a2 / a1) + 0.2, a2 the absorption nearest to 2.0; that is
\* value = (125 * a2 + 2 * a1) / (10 * a1).  For wavelengths [1.5, 2.0] and
\* absorption [0.1, 0.2] it is 25.2 = 252/10.
C3_RadiusFormula ==
    (NonEmpty /\ A_1_5 # 0) =>
        \A n \in 1..Len(estCalls) :
            LET v == estCalls[n].value
            IN  /\ estCalls[n].kind = "return"
                /\ v.d > 0
                /\ v.n * (10 * A_1_5) = v.d * (125 * A_2_0 + 2 * A_1_5)
                /\ (/\ spectrum.wavelengths = <<Target_1_5, Target_2_0>>
                    /\ spectrum.absorption = <<10, 20>>) => v.n * 10 = v.d * 252

C3_Witness ==
    /\ mode = "imported" /\ Len(estCalls) >= 1
    /\ spectrum.wavelengths = <<Target_1_5, Target_2_0>>
    /\ spectrum.absorption = <<10, 20>>
    /\ estCalls[1].divided

\* C5: on an empty wavelengths sequence detect_clouds and
\* estimate_particle_radius fail with InvalidInputError.
C5_EmptyRaisesInvalidInput ==
    (mode = "imported" /\ Len(spectrum.wavelengths) = 0) =>
        /\ \A n \in 1..Len(detCalls) :
               detCalls[n].kind = "raise" /\ detCalls[n].exc = "InvalidInputError"
        /\ \A n \in 1..Len(estCalls) :
               estCalls[n].kind = "raise" /\ estCalls[n].exc = "InvalidInputError"

C10_ZeroMeansUndefined ==
    /\ (NonEmpty /\ \A j \in 1..Len(spectrum.absorption) : spectrum.absorption[j] >= 0)
        => \A n \in 1..Len(estCalls) :
              LET v == estCalls[n].value
              IN  /\ estCalls[n].kind = "return"
                  /\ v = RZero \/ ~RLess(v, c)
                  /\ v = RZero => A_1_5 = 0
    /\ \A n \in 1..Len(calls) :
          (calls[n].fn = "estimate" /\ calls[n].kind = "return") =>
              /\ calls[n].value = RZero \/ ~RLess(calls[n].value, c)
              /\ calls[n].value = RZero => ~calls[n].divided
              /\ (Len(stdout) >= n /\ stdout[n].tag = "Radius"
                    /\ stdout[n].radius.hundredths = 0) => ~calls[n].divided

\* The computed radius at its lowest: a2 = 0 gives exactly c.
C10_Witness ==
    /\ NonEmpty /\ Len(estCalls) >= 1
    /\ \A j \in 1..Len(spectrum.absorption) : spectrum.absorption[j] >= 0
    /\ A_1_5 # 0 /\ A_2_0 = 0
    /\ estCalls[1].value = c

----------------------------------------------------------------------------
(* process_spectra *)

\* The line printed for the n-th call of the log.
LineOf(n) ==
    LET e == calls[n]
    IN  IF e.fn = "load" THEN [tag |-> "Processing", path |-> file_paths[e.file]]
        ELSE IF e.fn = "detect"
             THEN [tag |-> IF e.value THEN "Cloud" ELSE "NoCloud", file |-> e.file]
             ELSE [tag |-> "Radius", file |-> e.file, radius |-> Fmt2(e.value)]

LoadsUpTo(n) == Cardinality({m \in 1..n : calls[m].fn = "load"})

\* C4: a path that does not resolve to a well-formed file makes its file
\* fail; the failure is recorded as an error entry for that file, the later
\* files are still processed and process_spectra returns.
C4_FailureRecorded ==
    (mode = "main" /\ pc \in {"done", "raised"}) =>
        /\ pc = "done"
        /\ \A j \in 1..Len(file_paths) :
              /\ \E n \in 1..Len(calls) : calls[n].fn = "load" /\ calls[n].file = j
              /\ PathStatus[file_paths[j]] # "readable" =>
                    \E n \in 1..Len(stdout) :
                        stdout[n].tag = "Error" /\ stdout[n].file = j

\* C6: the paths are handled in input order; for each, load, then detect,
\* then estimate only after a detection that returned true; the radius is
\* printed for a file exactly when a cloud was detected for it, and all
\* lines of a file precede the lines of the next.
C6_OrderedPipeline ==
    mode = "main" =>
        /\ escaped = "none"
        /\ Len(stdout) = Len(calls)
        /\ \A n \in 1..Len(calls) :
              LET e == calls[n]
              IN  /\ e.kind = "return"
                  /\ stdout[n] = LineOf(n)
                  /\ e.file = LoadsUpTo(n)
                  /\ e.fn = "load" =>
                        \/ n = 1
                        \/ calls[n - 1].fn = "estimate"
                        \/ calls[n - 1].fn = "detect" /\ ~calls[n - 1].value
                  /\ e.fn = "detect" => n > 1 /\ calls[n - 1].fn = "load"
                  /\ e.fn = "estimate" =>
                        n > 1 /\ calls[n - 1].fn = "detect" /\ calls[n - 1].value
        /\ \A j \in 1..(i - 1) :
              LET detected == \E n \in 1..Len(calls) :
                                  calls[n].fn = "detect" /\ calls[n].file = j /\ calls[n].value
                  reported == \E n \in 1..Len(stdout) :
                                  stdout[n].tag = "Radius" /\ stdout[n].file = j
              IN  detected <=> reported
        /\ pc = "done" => i = Len(file_paths) + 1

\* Two files done, the first with a cloud and a radius, the second without.
C6_Witness ==
    /\ mode = "main" /\ pc = "done" /\ Len(file_paths) = 2
    /\ Len(stdout) = 5
    /\ stdout[2].tag = "Cloud" /\ stdout[3].tag = "Radius" /\ stdout[3].file = 1
    /\ stdout[4].tag = "Processing" /\ stdout[5].tag = "NoCloud" /\ stdout[5].file = 2

\* C7: load_spectrum_data raises NotFoundError for a path that does not
\* resolve and DataFormatError for a malformed resource; it returns a
\* Spectrum for neither.
C7_LoaderRejects ==
    \A n \in 1..Len(calls) :
        calls[n].fn = "load" =>
            LET st == PathStatus[file_paths[calls[n].file]]
            IN  /\ st = "missing" =>
                      calls[n].kind = "raise" /\ calls[n].exc = "NotFoundError"
                /\ st = "malformed" =>
                      calls[n].kind = "raise" /\ calls[n].exc = "DataFormatError"

\* C9: the Spectrum load_spectrum_data returns has wavelengths and
\* absorption of the same length, at least 1, and strictly increasing
\* wavelengths.
C9_LoadedSpectrumInvariant ==
    (mode = "main" /\ Len(calls) >= 1) =>
        /\ Len(data.wavelengths) = Len(data.absorption)
        /\ Len(data.wavelengths) >= 1
        /\ \A j \in 1..(Len(data.wavelengths) - 1) :
              data.wavelengths[j] < data.wavelengths[j + 1]

C9_Witness ==
    /\ mode = "main" /\ pc = "detect"
    /\ PathStatus[file_paths[i]] = "missing"
    /\ Len(data.wavelengths) = NumSamples
    /\ data.absorption[1] # data.absorption[2]

====
